---- MODULE Spec2Model ----
(***************************************************************************)
(* A model of the crucible compiler front end: the lexer (src/lexer.rs),   *)
(* the parser (src/parser.rs) and the flat IR builder and optimizer        *)
(* (src/ir.rs).                                                            *)
(*                                                                         *)
(* Strings are sequences of one-character strings, so that formatting     *)
(* (format!("{}.{}", name, counter)) and parsing (str::parse::<i64>) are   *)
(* modelled by what they do to the characters.                             *)
(***************************************************************************)
EXTENDS Integers, Sequences, FiniteSets, TLC

VARIABLES
    \* ---- lexer (src/lexer.rs, lex) ----
    input,            \* the source text, a sequence of characters
    chars,            \* number of characters the peekable iterator has yielded
    position,         \* the `position` counter of lex
    tokens,           \* the token vector built so far
    spans,            \* for each pushed token, <<offset its scan began at, offset after it>>
    lexState,         \* "idle" | "lexing" | "ok" (Ok returned) | "err" (Err returned)
    lexError,         \* the LexerError returned, when lexState = "err"
    \* ---- IR builder and optimizer (src/ir.rs) ----
    stmts,            \* the statements handed to lower()
    idx,              \* number of statements lower() has processed
    instructions,     \* Program.instructions
    variables,        \* Program.variables: name -> number of versions
    pc,               \* "idle" | "lower" | "lower_panic" | "ready" | "fold" | "fold_panic"
    known_constants,  \* constant_folding's local map
    modified,         \* constant_folding's loop flag
    calls,            \* number of optimize() calls that have returned
    outputs,          \* <<lower()'s result, result of 1st optimize(), ...>>
    passes,           \* iterations of `while modified` run by the current call
    \* ---- parser (src/parser.rs) ----
    ptokens,          \* Parser.tokens
    current,          \* Parser.current
    functions,        \* the `functions` vector of parse()
    parseState,       \* "idle", "parsing", "done" (returned) or "panic"
    parseResult,      \* what parse() returned: None until it returns
    plog              \* what the consume calls and loop iterations did, in order

lexVars == <<input, chars, position, tokens, spans, lexState, lexError>>
irVars == <<stmts, idx, instructions, variables, pc, known_constants,
            modified, calls, outputs, passes>>
parserVars == <<ptokens, current, functions, parseState, parseResult, plog>>
vars == <<input, chars, position, tokens, spans, lexState, lexError,
          stmts, idx, instructions, variables, pc, known_constants,
          modified, calls, outputs, passes,
          ptokens, current, functions, parseState, parseResult, plog>>

-----------------------------------------------------------------------------
(* Characters and decimal text                                             *)

DigitChars == <<"0", "1", "2", "3", "4", "5", "6", "7", "8", "9">>

IsDigit(c) == \E i \in 1..10 : DigitChars[i] = c

DigitOf(c) == CHOOSE d \in 0..9 : DigitChars[d + 1] = c

RECURSIVE FormatNat(_)
FormatNat(n) ==
    IF n < 10 THEN <<DigitChars[n + 1]>>
    ELSE FormatNat(n \div 10) \o <<DigitChars[(n % 10) + 1]>>

\* format!("{}", v) of an integer: an optional '-' and the decimal digits.
FormatInt(n) == IF n < 0 THEN <<"-">> \o FormatNat(-n) ELSE FormatNat(n)

RECURSIVE StripZeros(_)
StripZeros(ds) ==
    IF Len(ds) > 1 /\ ds[1] = "0" THEN StripZeros(Tail(ds)) ELSE ds

\* Lexicographic <= on digit sequences of equal length.
RECURSIVE DigitsLE(_, _)
DigitsLE(a, b) ==
    IF a = <<>> THEN TRUE
    ELSE IF DigitOf(a[1]) < DigitOf(b[1]) THEN TRUE
    ELSE IF DigitOf(a[1]) > DigitOf(b[1]) THEN FALSE
    ELSE DigitsLE(Tail(a), Tail(b))

\* i64::MAX = 9223372036854775807 and |i64::MIN| = 9223372036854775808.
I64MaxDigits ==
    <<"9","2","2","3","3","7","2","0","3","6","8","5","4","7","7","5","8","0","7">>
I64MinDigits ==
    <<"9","2","2","3","3","7","2","0","3","6","8","5","4","7","7","5","8","0","8">>

\* Whether |value| given by canonical digits m fits (limit is I64MaxDigits or
\* I64MinDigits).
FitsMagnitude(m, limit) ==
    \/ Len(m) < Len(limit)
    \/ Len(m) = Len(limit) /\ DigitsLE(m, limit)

\* str::parse::<i64>(): an optional sign, then one or more ASCII digits whose
\* value fits 64 bits.  The value is held as sign and canonical decimal
\* magnitude (no leading zeros), which represents every i64 exactly.
ParseI64(s) ==
    LET signed == Len(s) > 0 /\ s[1] \in {"-", "+"}
        neg == Len(s) > 0 /\ s[1] = "-"
        ds == IF signed THEN Tail(s) ELSE s
        m == StripZeros(ds)
    IN  IF /\ Len(ds) > 0
           /\ \A i \in 1..Len(ds) : IsDigit(ds[i])
           /\ FitsMagnitude(m, IF neg THEN I64MinDigits ELSE I64MaxDigits)
        THEN [ok |-> TRUE, neg |-> neg /\ m # <<"0">>, mag |-> m]
        ELSE [ok |-> FALSE]

RECURSIVE NatOf(_)
NatOf(ds) ==
    IF ds = <<>> THEN 0
    ELSE 10 * NatOf(SubSeq(ds, 1, Len(ds) - 1)) + DigitOf(ds[Len(ds)])

\* The integer a successful ParseI64 result stands for.
IntOf(p) == IF p.neg THEN 0 - NatOf(p.mag) ELSE NatOf(p.mag)

\* Option<T>
None == [some |-> FALSE]
Some(v) == [some |-> TRUE, val |-> v]

-----------------------------------------------------------------------------
(* Lexer: src/lexer.rs                                                      *)

\* char::is_whitespace, char::is_alphabetic, char::is_alphanumeric on the
\* ASCII characters the inputs below are written in.
IsWhitespace(c) == c \in {" ", "\t", "\n", "\r"}

Letters ==
    {"a", "b", "c", "d", "e", "f", "g", "h", "i", "j", "k", "l", "m", "n", "o",
     "p", "q", "r", "s", "t", "u", "v", "w", "x", "y", "z",
     "A", "B", "C", "D", "E", "F", "G", "H", "I", "J", "K", "L", "M", "N", "O",
     "P", "Q", "R", "S", "T", "U", "V", "W", "X", "Y", "Z"}

IsAlphabetic(c) == c \in Letters

IsAlphanumeric(c) == IsAlphabetic(c) \/ IsDigit(c)

IsIdentChar(c) == IsAlphanumeric(c) \/ c = "_"

Tok(type) == [type |-> type]
IdentifierTok(name) == [type |-> "Identifier", name |-> name]
IntegerTok(value) == [type |-> "Integer", value |-> value]

\* The keyword table: `match identifier.as_str()`.
Keyword(identifier) ==
    CASE identifier = <<"f", "n">> -> Tok("Function")
      [] identifier = <<"r", "e", "t", "u", "r", "n">> -> Tok("Return")
      [] identifier = <<"l", "e", "t">> -> Tok("Let")
      [] identifier = <<"i", "f">> -> Tok("If")
      [] identifier = <<"e", "l", "s", "e">> -> Tok("Else")
      [] identifier = <<"w", "h", "i", "l", "e">> -> Tok("While")
      [] identifier = <<"t", "r", "u", "e">> -> Tok("True")
      [] identifier = <<"f", "a", "l", "s", "e">> -> Tok("False")
      [] identifier = <<"i", "n", "t">> -> Tok("TypeInt")
      [] identifier = <<"b", "o", "o", "l">> -> Tok("TypeBool")
      [] identifier = <<"v", "o", "i", "d">> -> Tok("TypeVoid")
      [] OTHER -> IdentifierTok(identifier)

\* The inner `while let Some(&ch) = chars.peek()` loops: the number of
\* consecutive characters from offset c (0-based) on that the loop takes.
IdentRunLength(inp, c) ==
    CHOOSE n \in 0..(Len(inp) - c) :
        /\ \A k \in 1..n : IsIdentChar(inp[c + k])
        /\ c + n = Len(inp) \/ ~IsIdentChar(inp[c + n + 1])

DigitRunLength(inp, c) ==
    CHOOSE n \in 0..(Len(inp) - c) :
        /\ \A k \in 1..n : IsDigit(inp[c + k])
        /\ c + n = Len(inp) \/ ~IsDigit(inp[c + n + 1])

\* What one iteration of the outer loop of lex does:
\*   len  characters taken from the iterator and added to `position`,
\*   tok  the token pushed, if any,
\*   err  the LexerError returned, if any.
Step(len, tok, err) == [len |-> len, tok |-> tok, err |-> err]

LexerError(message, pos) == [message |-> message, position |-> pos]

\* The identifier / keyword arm.
LexIdentifier(inp, c, pos) ==
    LET n == IdentRunLength(inp, c)
        identifier == SubSeq(inp, c + 1, c + n)
    IN  Step(n, Some(Keyword(identifier)), None)

\* The integer arm: the digit run is consumed (position advanced past it)
\* before number.parse::<i64>() is tried.
LexNumber(inp, c, pos) ==
    LET n == DigitRunLength(inp, c)
        number == SubSeq(inp, c + 1, c + n)
        value == ParseI64(number)
    IN  IF value.ok
        THEN Step(n, Some(IntegerTok([neg |-> value.neg, mag |-> value.mag])), None)
        ELSE Step(n, None,
                  Some(LexerError(<<"Invalid integer: ">> \o number, pos + n)))

\* LexTwoChar without the lookahead.
LexTwoChar_NoLookahead(inp, c, second, both, single) == single

\* An operator arm with one character of lookahead: the first character is
\* taken, then `second` is looked for.  `single` is the Step for the
\* one-character case (a token, or an error at the position after the first
\* character).
LexTwoChar(inp, c, second, both, single) ==
    IF c + 1 < Len(inp) /\ inp[c + 2] = second
    THEN Step(2, Some(Tok(both)), None)
    ELSE single

SingleTok(type) == Step(1, Some(Tok(type)), None)
SingleErr(message, pos) == Step(1, None, Some(LexerError(message, pos + 1)))

\* The `match ch` of lex for the peeked character at offset c.
LexOne(inp, c, pos) ==
    LET ch == inp[c + 1]
    IN  CASE IsWhitespace(ch) -> Step(1, None, None)
          [] IsAlphabetic(ch) -> LexIdentifier(inp, c, pos)
          [] IsDigit(ch) -> LexNumber(inp, c, pos)
          [] ch = "-" -> LexTwoChar(inp, c, ">", "Arrow", SingleTok("Minus"))
          [] ch = "+" -> SingleTok("Plus")
          [] ch = "*" -> SingleTok("Star")
          [] ch = "/" -> SingleTok("Slash")
          [] ch = "=" -> LexTwoChar(inp, c, "=", "Equal", SingleTok("Assign"))
          [] ch = "<" -> LexTwoChar(inp, c, "=", "LessEqual", SingleTok("Less"))
          [] ch = ">" -> LexTwoChar(inp, c, "=", "GreaterEqual", SingleTok("Greater"))
          [] ch = "!" -> LexTwoChar(inp, c, "=", "NotEqual",
                                    SingleErr(<<"Expected '=' after '!'">>, pos))
          [] ch = "&" -> LexTwoChar(inp, c, "&", "And",
                                    SingleErr(<<"Expected '&' after '&'">>, pos))
          [] ch = "|" -> LexTwoChar(inp, c, "|", "Or",
                                    SingleErr(<<"Expected '|' after '|'">>, pos))
          [] ch = "(" -> SingleTok("LeftParen")
          [] ch = ")" -> SingleTok("RightParen")
          [] ch = "{" -> SingleTok("LeftBrace")
          [] ch = "}" -> SingleTok("RightBrace")
          [] ch = ":" -> SingleTok("Colon")
          [] ch = ";" -> SingleTok("Semicolon")
          [] ch = "," -> SingleTok("Comma")
          [] OTHER -> Step(0, None,
                           Some(LexerError(<<"Unexpected character: ", ch>>, pos)))

\* LexFinish that pushes Eof only after some other token.
LexFinish_NoEofWhenEmpty(toks) ==
    IF toks = <<>> THEN toks ELSE Append(toks, Tok("Eof"))

\* tokens.push(Token::Eof) before Ok(tokens).
LexFinish(toks) == Append(toks, Tok("Eof"))

-----------------------------------------------------------------------------
(* IR builder: src/ir.rs                                                    *)

Constant(result, value) ==
    [tag |-> "Constant", result |-> result, value |-> value]
Binary(result, op, left, right) ==
    [tag |-> "Binary", result |-> result, op |-> op, left |-> left,
     right |-> right]

\* Program::new()
NewProgram == [instructions |-> <<>>, variables |-> <<>>]

\* HashMap lookups on Program.variables (a function from the keys present).
HasKey(map, k) == k \in DOMAIN map
Put(map, k, v) == [x \in (DOMAIN map) \cup {k} |-> IF x = k THEN v ELSE map[x]]

\* gen_name without `*counter += 1`.
gen_name_NoIncrement(name, ir) ==
    LET counter == IF HasKey(ir.variables, name) THEN ir.variables[name] ELSE 0
    IN  [name |-> name \o <<".">> \o FormatInt(counter),
         ir |-> [ir EXCEPT !.variables = Put(ir.variables, name, counter)],
         ok |-> TRUE]

\* gen_name: bump the per-name counter (inserting 0 first) and format
\* "<name>.<counter>".
gen_name(name, ir) ==
    LET counter == (IF HasKey(ir.variables, name) THEN ir.variables[name] ELSE 0) + 1
    IN  [name |-> name \o <<".">> \o FormatInt(counter),
         ir |-> [ir EXCEPT !.variables = Put(ir.variables, name, counter)],
         ok |-> TRUE]

\* translate_literal: with a target, emit a Constant under a fresh name;
\* without, the literal's decimal text is the operand.
translate_literal(value, ir, target) ==
    IF target.some
    THEN LET g == gen_name(target.val, ir)
         IN  [name |-> g.name,
              ir |-> [g.ir EXCEPT !.instructions =
                         Append(@, Constant(g.name, value))],
              ok |-> TRUE]
    ELSE [name |-> FormatInt(value), ir |-> ir, ok |-> TRUE]

\* translate_expr.  ok = FALSE is the panic of `.unwrap()` on a variable
\* with no entry in Program.variables; the function has no error return.
RECURSIVE translate_expr(_, _, _)
translate_expr(expr, ir, target) ==
    CASE expr.tag = "Integer" -> translate_literal(expr.value, ir, target)
      [] expr.tag = "Variable" ->
            IF HasKey(ir.variables, expr.name)
            THEN [name |-> expr.name \o <<".">> \o FormatInt(ir.variables[expr.name]),
                  ir |-> ir, ok |-> TRUE]
            ELSE [name |-> <<>>, ir |-> ir, ok |-> FALSE]
      [] expr.tag = "Binary" ->
            LET l == IF expr.left.tag = "Integer"
                     THEN translate_literal(expr.left.value, ir, None)
                     ELSE translate_expr(expr.left, ir, None)
            IN  IF ~l.ok THEN l
                ELSE
                LET r == IF expr.right.tag = "Integer"
                         THEN translate_literal(expr.right.value, l.ir, None)
                         ELSE translate_expr(expr.right, l.ir, None)
                IN  IF ~r.ok THEN r
                    ELSE
                    LET g == IF target.some THEN gen_name(target.val, r.ir)
                             ELSE gen_name(<<"b", "i", "n">>, r.ir)
                    IN  [name |-> g.name,
                         ir |-> [g.ir EXCEPT !.instructions =
                                    Append(@, Binary(g.name, expr.op, l.name, r.name))],
                         ok |-> TRUE]

\* The name a Let or Assignment statement binds.
StmtTarget(s) == IF s.tag = "Let" THEN s.name ELSE s.target

\* lower(): one loop iteration, the translation of statement idx + 1.
LowerBody(stmt, ir) == translate_expr(stmt.value, ir, Some(StmtTarget(stmt)))

-----------------------------------------------------------------------------
(* Optimizer: src/ir.rs                                                     *)

\* The `uses` map of dead_code_elimination: how often a name is the left or
\* right operand of a Binary instruction.
UseCount(insts, n) ==
    Cardinality({i \in 1..Len(insts) : insts[i].tag = "Binary" /\ insts[i].left = n})
    + Cardinality({i \in 1..Len(insts) : insts[i].tag = "Binary" /\ insts[i].right = n})

\* The retain() predicate of dead_code_elimination.
Retained(insts, inst) == UseCount(insts, inst.result) > 0

dead_code_elimination(insts) ==
    SelectSeq(insts, LAMBDA inst : Retained(insts, inst))

\* known_constants.get(&operand).copied().or_else(|| operand.parse::<i64>().ok())
OperandValue(known, operand) ==
    IF HasKey(known, operand) THEN Some(known[operand])
    ELSE LET p == ParseI64(operand)
         IN  IF p.ok THEN Some(IntOf(p)) ELSE None

\* Rust's integer `/`: the quotient truncated toward zero.
TruncDiv(a, b) ==
    LET q == (IF a < 0 THEN 0 - a ELSE a) \div (IF b < 0 THEN 0 - b ELSE b)
    IN  IF (a < 0) = (b < 0) THEN q ELSE 0 - q

\* FoldValue with the operands of Subtract exchanged.
FoldValue_SwappedSubtract(op, l, r) ==
    CASE op = "Add" -> l + r
      [] op = "Subtract" -> r - l
      [] op = "Multiply" -> l * r
      [] op = "Divide" -> TruncDiv(l, r)

\* The `match op` of constant_folding (it has arms for these four operators
\* only).  i64 overflow is outside the values the bounded programs below can
\* produce.
FoldValue(op, l, r) ==
    CASE op = "Add" -> l + r
      [] op = "Subtract" -> l - r
      [] op = "Multiply" -> l * r
      [] op = "Divide" -> TruncDiv(l, r)

\* `left_val / right_val` panics ("attempt to divide by zero") when the
\* divisor is 0; constant_folding has no error return.
FoldPanics(op, l, r) == op = "Divide" /\ r = 0

\* FoldScan with `modified = true` in every arm.
RECURSIVE FoldScan_AlwaysModified(_, _, _, _)
FoldScan_AlwaysModified(insts, known, mod, i) ==
    IF i > Len(insts)
    THEN [instructions |-> insts, known |-> known, modified |-> TRUE, ok |-> TRUE]
    ELSE LET inst == insts[i]
         IN  IF inst.tag = "Constant"
             THEN FoldScan_AlwaysModified(insts, Put(known, inst.result, inst.value),
                                          TRUE, i + 1)
             ELSE LET lv == OperandValue(known, inst.left)
                      rv == OperandValue(known, inst.right)
                  IN  IF lv.some /\ rv.some
                      THEN IF FoldPanics(inst.op, lv.val, rv.val)
                           THEN [instructions |-> insts, known |-> known,
                                 modified |-> TRUE, ok |-> FALSE]
                           ELSE LET v == FoldValue(inst.op, lv.val, rv.val)
                                IN  FoldScan_AlwaysModified(
                                        [insts EXCEPT ![i] = Constant(inst.result, v)],
                                        Put(known, inst.result, v), TRUE, i + 1)
                      ELSE FoldScan_AlwaysModified(insts, known, TRUE, i + 1)

\* One run of the inner `while i < program.instructions.len()` loop of
\* constant_folding, from index i on.  ok = FALSE is the division panic.
RECURSIVE FoldScan(_, _, _, _)
FoldScan(insts, known, mod, i) ==
    IF i > Len(insts)
    THEN [instructions |-> insts, known |-> known, modified |-> mod, ok |-> TRUE]
    ELSE LET inst == insts[i]
         IN  IF inst.tag = "Constant"
             THEN FoldScan(insts, Put(known, inst.result, inst.value), mod, i + 1)
             ELSE LET lv == OperandValue(known, inst.left)
                      rv == OperandValue(known, inst.right)
                  IN  IF lv.some /\ rv.some
                      THEN IF FoldPanics(inst.op, lv.val, rv.val)
                           THEN [instructions |-> insts, known |-> known,
                                 modified |-> mod, ok |-> FALSE]
                           ELSE LET v == FoldValue(inst.op, lv.val, rv.val)
                                IN  FoldScan([insts EXCEPT ![i] = Constant(inst.result, v)],
                                             Put(known, inst.result, v), TRUE, i + 1)
                      ELSE FoldScan(insts, known, mod, i + 1)

-----------------------------------------------------------------------------
(* Inputs of the IR builder                                                 *)

Integer(v) == [tag |-> "Integer", value |-> v]
Variable(n) == [tag |-> "Variable", name |-> n]
BinaryExpr(op, l, r) == [tag |-> "Binary", op |-> op, left |-> l, right |-> r]
Let(n, e) == [tag |-> "Let", name |-> n, typ |-> "Int", value |-> e]
Assign(n, e) == [tag |-> "Assignment", target |-> n, value |-> e]

NameX == <<"x">>
NameY == <<"y">>
NameZ == <<"z">>
NameBin == <<"b", "i", "n">>
NameUnused == <<"u", "n", "u", "s", "e", "d">>

\* Longest generated statement list.
MaxStmts == 2
\* How many times the caller runs optimize() on the lowered program.
MaxOptimizeCalls == 2

GenNames == {NameX, NameBin}
GenLits == {0, 3}
Leaves == {Integer(v) : v \in GenLits} \cup {Variable(n) : n \in GenNames}
FlatExprs ==
    {BinaryExpr("Add", l, r) : l \in Leaves, r \in Leaves}
    \cup {BinaryExpr("Divide", l, r) :
             l \in {Integer(3), Variable(NameX)},
             r \in {Integer(0), Variable(NameX), Variable(NameBin)}}
NestedExprs ==
    {BinaryExpr("Add", BinaryExpr("Add", Variable(n), Integer(3)), Variable(m)) :
        n \in GenNames, m \in GenNames}
    \cup {BinaryExpr("Add", Variable(NameX),
                     BinaryExpr("Add", Variable(NameBin), Integer(3)))}
GenExprs == Leaves \cup FlatExprs \cup NestedExprs
GenStmts == {Let(n, e) : n \in GenNames, e \in GenExprs}
            \cup {Assign(NameX, e) : e \in NestedExprs}

\* let x: int = 3; let y: int = 4; let z: int = x * y;
EndToEndProgram ==
    <<Let(NameX, Integer(3)), Let(NameY, Integer(4)),
      Let(NameZ, BinaryExpr("Multiply", Variable(NameX), Variable(NameY)))>>
\* let x: int = 3; let unused: int = 0; let y: int = x + 1;
DceProgram ==
    <<Let(NameX, Integer(3)), Let(NameUnused, Integer(0)),
      Let(NameY, BinaryExpr("Add", Variable(NameX), Integer(1)))>>
\* let x: int = 1 / 0;
DivZeroProgram == <<Let(NameX, BinaryExpr("Divide", Integer(1), Integer(0)))>>
\* let y: int = x + 1;
UseBeforeDefProgram == <<Let(NameY, BinaryExpr("Add", Variable(NameX), Integer(1)))>>
\* let x: int = 0 - 3; x = x / 2; let y: int = x - 1; y = y * x;
ArithProgram ==
    <<Let(NameX, BinaryExpr("Subtract", Integer(0), Integer(3))),
      Assign(NameX, BinaryExpr("Divide", Variable(NameX), Integer(2))),
      Let(NameY, BinaryExpr("Subtract", Variable(NameX), Integer(1))),
      Assign(NameY, BinaryExpr("Multiply", Variable(NameY), Variable(NameX)))>>

\* let x: int = 3; let y: int = x; let z: int = y + 1;
BareVariableProgram ==
    <<Let(NameX, Integer(3)), Let(NameY, Variable(NameX)),
      Let(NameZ, BinaryExpr("Add", Variable(NameY), Integer(1)))>>
\* let bin: int = 3; let x: int = (bin + 3) + bin;
BinTemporaryProgram ==
    <<Let(NameBin, Integer(3)),
      Let(NameX, BinaryExpr("Add", BinaryExpr("Add", Variable(NameBin), Integer(3)),
                            Variable(NameBin)))>>

NamedPrograms ==
    {EndToEndProgram, DceProgram, DivZeroProgram, UseBeforeDefProgram, ArithProgram,
     BareVariableProgram, BinTemporaryProgram}

GenPrograms(k) == [1..k -> GenStmts]

-----------------------------------------------------------------------------
(* The IR builder and optimizer as a state machine                          *)

ParseIdle ==
    /\ ptokens = <<>>
    /\ current = 0
    /\ functions = <<>>
    /\ parseState = "idle"
    /\ parseResult = None
    /\ plog = <<>>

LexIdle ==
    /\ input = <<>>
    /\ chars = 0
    /\ position = 0
    /\ tokens = <<>>
    /\ spans = <<>>
    /\ lexState = "idle"
    /\ lexError = None

InitIR ==
    /\ LexIdle
    /\ ParseIdle
    /\ \/ \E k \in 0..MaxStmts : stmts \in GenPrograms(k)
       \/ stmts \in NamedPrograms
    /\ idx = 0
    /\ instructions = NewProgram.instructions
    /\ variables = NewProgram.variables
    /\ pc = "lower"
    /\ known_constants = <<>>
    /\ modified = FALSE
    /\ calls = 0
    /\ outputs = <<>>
    /\ passes = 0

\* lower(): the body of `for stmt in statements` for one statement.
LowerStmt ==
    /\ pc = "lower"
    /\ idx < Len(stmts)
    /\ LET r == LowerBody(stmts[idx + 1],
                          [instructions |-> instructions, variables |-> variables])
       IN  /\ instructions' = r.ir.instructions
           /\ variables' = r.ir.variables
           /\ IF r.ok
              THEN idx' = idx + 1 /\ pc' = pc
              ELSE idx' = idx /\ pc' = "lower_panic"
    /\ UNCHANGED <<stmts, known_constants, modified, calls, outputs, passes>>
    /\ UNCHANGED lexVars
    /\ UNCHANGED parserVars

\* lower(): the statements are exhausted and the Program is returned.
LowerReturn ==
    /\ pc = "lower"
    /\ idx = Len(stmts)
    /\ pc' = "ready"
    /\ outputs' = <<instructions>>
    /\ UNCHANGED <<stmts, idx, instructions, variables, known_constants,
                   modified, calls, passes>>
    /\ UNCHANGED lexVars
    /\ UNCHANGED parserVars

\* optimize(): dead_code_elimination(program), then the entry of
\* constant_folding (fresh known_constants, modified = true).
OptimizeDCE ==
    /\ pc = "ready"
    /\ calls < MaxOptimizeCalls
    /\ instructions' = dead_code_elimination(instructions)
    /\ known_constants' = <<>>
    /\ modified' = TRUE
    /\ pc' = "fold"
    /\ passes' = 0
    /\ UNCHANGED <<stmts, idx, variables, calls, outputs>>
    /\ UNCHANGED lexVars
    /\ UNCHANGED parserVars

\* constant_folding: one iteration of `while modified`.
FoldPass ==
    /\ pc = "fold"
    /\ modified
    /\ LET r == FoldScan(instructions, known_constants, FALSE, 1)
       IN  /\ instructions' = r.instructions
           /\ known_constants' = r.known
           /\ modified' = r.modified
           /\ pc' = IF r.ok THEN pc ELSE "fold_panic"
    /\ passes' = passes + 1
    /\ UNCHANGED <<stmts, idx, variables, calls, outputs>>
    /\ UNCHANGED lexVars
    /\ UNCHANGED parserVars

\* constant_folding leaves its loop and optimize() returns.
OptimizeReturn ==
    /\ pc = "fold"
    /\ ~modified
    /\ pc' = "ready"
    /\ calls' = calls + 1
    /\ outputs' = Append(outputs, instructions)
    /\ UNCHANGED <<stmts, idx, instructions, variables, known_constants, modified,
                   passes>>
    /\ UNCHANGED lexVars
    /\ UNCHANGED parserVars

NextIR == LowerStmt \/ LowerReturn \/ OptimizeDCE \/ FoldPass \/ OptimizeReturn

SpecIR == InitIR /\ [][NextIR]_vars

-----------------------------------------------------------------------------
(* optimize() on a Program built by its caller                              *)

\* Program.instructions is a public field, so optimize() may be handed any
\* instruction list.  The generated lists have up to MaxInsts instructions;
\* the instruction at index i defines t.i and is a Constant, `l + 1` or
\* `2 / r`, with l and r any of the defined names (its own, earlier and
\* later ones) or, for l, the literal 1.
MaxInsts == 3
TempName(i) == <<"t", ".">> \o FormatNat(i)
GenInstructionsAt(i, n) ==
    {Constant(TempName(i), v) : v \in {0, 2}}
    \cup {Binary(TempName(i), "Add", l, <<"1">>) :
             l \in {TempName(j) : j \in 1..n} \cup {<<"1">>}}
    \cup {Binary(TempName(i), "Divide", <<"2">>, r) : r \in {TempName(j) : j \in 1..n}}
RECURSIVE GenListsUpTo(_, _)
GenListsUpTo(k, n) ==
    IF k = 0 THEN {<<>>}
    ELSE {Append(insts, inst) : insts \in GenListsUpTo(k - 1, n),
                                inst \in GenInstructionsAt(k, n)}
GenInstructionLists(n) == GenListsUpTo(n, n)

InitFold ==
    /\ LexIdle
    /\ ParseIdle
    /\ \E n \in 0..MaxInsts : instructions \in GenInstructionLists(n)
    /\ outputs = <<instructions>>
    /\ stmts = <<>>
    /\ idx = 0
    /\ variables = NewProgram.variables
    /\ pc = "ready"
    /\ known_constants = <<>>
    /\ modified = FALSE
    /\ calls = 0
    /\ passes = 0

NextFold == OptimizeDCE \/ FoldPass \/ OptimizeReturn

SpecFold == InitFold /\ [][NextFold]_vars

-----------------------------------------------------------------------------
(* Reference semantics of an instruction list, used to state the claims     *)

\* The value an operand has under env: a defined name's value, else the
\* integer its text denotes.
EvalOperand(env, operand) ==
    IF HasKey(env, operand) THEN Some(env[operand])
    ELSE LET p == ParseI64(operand)
         IN  IF p.ok THEN Some(IntOf(p)) ELSE None

\* In-order evaluation from instruction i on: ok = FALSE when an operand has
\* no value or a division has divisor 0.
RECURSIVE EvalFrom(_, _, _)
EvalFrom(insts, env, i) ==
    IF i > Len(insts) THEN [ok |-> TRUE, env |-> env]
    ELSE LET inst == insts[i]
         IN  IF inst.tag = "Constant"
             THEN EvalFrom(insts, Put(env, inst.result, inst.value), i + 1)
             ELSE LET lv == EvalOperand(env, inst.left)
                      rv == EvalOperand(env, inst.right)
                  IN  IF ~lv.some \/ ~rv.some \/ (inst.op = "Divide" /\ rv.val = 0)
                      THEN [ok |-> FALSE, env |-> env]
                      ELSE EvalFrom(insts,
                                    Put(env, inst.result,
                                        CASE inst.op = "Add" -> lv.val + rv.val
                                          [] inst.op = "Subtract" -> lv.val - rv.val
                                          [] inst.op = "Multiply" -> lv.val * rv.val
                                          [] inst.op = "Divide" -> TruncDiv(lv.val, rv.val)),
                                    i + 1)

Eval(insts) == EvalFrom(insts, <<>>, 1)

\* Every operand of instruction i is a literal or the result of an earlier
\* instruction of the list.
OperandsDefined(insts, i) ==
    insts[i].tag = "Binary" =>
        \A o \in {insts[i].left, insts[i].right} :
            \/ ParseI64(o).ok
            \/ \E j \in 1..(i - 1) : insts[j].result = o

\* The list holds a Divide whose divisor is the literal 0 or a name whose
\* value, evaluating the instructions before it, is 0.
RECURSIVE HasZeroDivisorFrom(_, _, _)
HasZeroDivisorFrom(insts, env, i) ==
    IF i > Len(insts) THEN FALSE
    ELSE LET inst == insts[i]
         IN  IF inst.tag = "Constant"
             THEN HasZeroDivisorFrom(insts, Put(env, inst.result, inst.value), i + 1)
             ELSE LET lv == EvalOperand(env, inst.left)
                      rv == EvalOperand(env, inst.right)
                  IN  \/ inst.op = "Divide" /\ rv.some /\ rv.val = 0
                      \/ /\ lv.some /\ rv.some
                         /\ ~(inst.op = "Divide" /\ rv.val = 0)
                         /\ HasZeroDivisorFrom(insts,
                                Put(env, inst.result, FoldValue(inst.op, lv.val, rv.val)),
                                i + 1)

HasZeroDivisor(insts) == HasZeroDivisorFrom(insts, <<>>, 1)

\* How the first optimize() call on the lowered program ended.
OptimizeOutcome ==
    CASE pc = "fold_panic" -> "panic"
      [] calls >= 1 -> "returned"
      [] OTHER -> "running"

\* How lower() ended.
LowerOutcome ==
    CASE pc = "lower_panic" -> "panic"
      [] pc = "lower" -> "running"
      [] OTHER -> "returned"

-----------------------------------------------------------------------------
(* Claims about the IR builder and the optimizer                            *)

\* C1: optimize() preserves results.  When the lowered program evaluates
\* without dividing by zero, every instruction left by the first optimize()
\* defines a name whose value, evaluating the optimized list in order, equals
\* its value in the lowered list, and each operand name of a surviving
\* instruction is defined by an earlier surviving instruction.
C1_OptimizePreservesResults ==
    (Len(outputs) >= 2 /\ Eval(outputs[1]).ok) =>
        LET before == Eval(outputs[1])
            after == Eval(outputs[2])
        IN  /\ after.ok
            /\ \A i \in 1..Len(outputs[2]) :
                  /\ HasKey(before.env, outputs[2][i].result)
                  /\ after.env[outputs[2][i].result] = before.env[outputs[2][i].result]
                  /\ OperandsDefined(outputs[2], i)

\* C1 witness: optimize() returned a shorter, non-empty list in which an
\* instruction that was a Binary in the lowered program survives as a
\* folded Constant.
C1_Witness ==
    /\ Len(outputs) >= 2
    /\ Eval(outputs[1]).ok
    /\ Len(outputs[2]) < Len(outputs[1])
    /\ \E i \in 1..Len(outputs[2]) : \E j \in 1..Len(outputs[1]) :
          /\ outputs[1][j].result = outputs[2][i].result
          /\ outputs[1][j].tag = "Binary"
          /\ outputs[2][i].tag = "Constant"

\* C2 (as claimed): a second optimize() leaves the result of the first
\* unchanged.
C2_OptimizeIdempotent ==
    Len(outputs) >= 3 => outputs[3] = outputs[2]

\* C3 (as claimed): the end-to-end example lowers to three instructions and
\* optimizes to the single instruction Constant{z.1, 12}.
C3_EndToEndExample ==
    (stmts = EndToEndProgram /\ Len(outputs) >= 2) =>
        /\ outputs[1] = <<Constant(<<"x", ".", "1">>, 3),
                          Constant(<<"y", ".", "1">>, 4),
                          Binary(<<"z", ".", "1">>, "Multiply",
                                 <<"x", ".", "1">>, <<"y", ".", "1">>)>>
        /\ outputs[2] = <<Constant(<<"z", ".", "1">>, 12)>>

\* C4 (as claimed): after optimize() the unused definition is gone and no
\* remaining instruction is dead: each result is an operand of a remaining
\* instruction (this IR has no phi or terminator to observe a result).
C4_NoDeadInstruction ==
    Len(outputs) >= 2 =>
        /\ stmts = DceProgram =>
              \A i \in 1..Len(outputs[2]) :
                  outputs[2][i].result # NameUnused \o <<".", "1">>
        /\ \A i \in 1..Len(outputs[2]) :
              UseCount(outputs[2], outputs[2][i].result) > 0

\* C5 (as claimed): a program holding a division by a constant 0 makes
\* optimize() end in a DivisionByZero error: it neither panics nor returns
\* normally.
C5_DivisionByZeroIsError ==
    (Len(outputs) >= 1 /\ HasZeroDivisor(outputs[1])) =>
        OptimizeOutcome \in {"running", "DivisionByZero"}

\* C6: SSA uniqueness.  At every point of lowering and optimizing, no two
\* instructions of the program have the same result name.
C6_SsaUnique ==
    \A i \in 1..Len(instructions) : \A j \in 1..Len(instructions) :
        i # j => instructions[i].result # instructions[j].result

\* C6 witness: lower() returned a program for statements that assign the
\* source variable `bin` and use nested expressions, holding at least three
\* results that start with "bin.".
C6_Witness ==
    /\ pc = "ready"
    /\ calls = 0
    /\ \E k \in 1..Len(stmts) : StmtTarget(stmts[k]) = NameBin
    /\ Cardinality({i \in 1..Len(instructions) :
          /\ Len(instructions[i].result) > 4
          /\ SubSeq(instructions[i].result, 1, 4) = NameBin \o <<".">>}) >= 3

\* C7 (as claimed): a read of a variable with no binding makes lower() end
\* in a LowerError value; lower() does not panic.
C7_UndefinedVariableIsError ==
    LowerOutcome \in {"running", "returned", "LowerError"}

\* The names the lowered statements should read, followed along the emitted
\* instructions: `env` maps each source variable to the name its latest let
\* or assignment bound (the result of the instruction emitted for the
\* right-hand side, or, for a bare variable on the right, the name that
\* variable was bound to); insts[pos] is the next instruction to account
\* for.  ok says that expr is accounted for from pos on with every operand
\* that reads a variable bound in env equal to the name bound there; a
\* variable that no statement has assigned has no name (<<>>) and its reads
\* are left alone.
RECURSIVE ResolveExpr(_, _, _, _, _)
ResolveExpr(expr, env, insts, pos, top) ==
    CASE expr.tag = "Integer" ->
            IF top
            THEN [ok |-> pos <= Len(insts) /\ insts[pos].tag = "Constant",
                  name |-> IF pos <= Len(insts) THEN insts[pos].result ELSE <<>>,
                  pos |-> pos + 1]
            ELSE [ok |-> TRUE, name |-> FormatInt(expr.value), pos |-> pos]
      [] expr.tag = "Variable" ->
            [ok |-> TRUE,
             name |-> IF HasKey(env, expr.name) THEN env[expr.name] ELSE <<>>,
             pos |-> pos]
      [] expr.tag = "Binary" ->
            LET l == ResolveExpr(expr.left, env, insts, pos, FALSE)
                r == ResolveExpr(expr.right, env, insts, l.pos, FALSE)
            IN  [ok |-> /\ l.ok /\ r.ok
                        /\ r.pos <= Len(insts)
                        /\ insts[r.pos].tag = "Binary"
                        /\ l.name = <<>> \/ insts[r.pos].left = l.name
                        /\ r.name = <<>> \/ insts[r.pos].right = r.name,
                 name |-> IF r.pos <= Len(insts) THEN insts[r.pos].result ELSE <<>>,
                 pos |-> r.pos + 1]

RECURSIVE ResolveStmts(_, _, _, _)
ResolveStmts(ss, env, insts, pos) ==
    IF ss = <<>> THEN pos = Len(insts) + 1
    ELSE LET r == ResolveExpr(ss[1].value, env, insts, pos, TRUE)
         IN  /\ r.ok
             /\ ResolveStmts(Tail(ss), Put(env, StmtTarget(ss[1]), r.name), insts, r.pos)

\* The variables an expression reads.
RECURSIVE ReadVars(_)
ReadVars(expr) ==
    CASE expr.tag = "Integer" -> {}
      [] expr.tag = "Variable" -> {expr.name}
      [] expr.tag = "Binary" -> ReadVars(expr.left) \cup ReadVars(expr.right)

\* C14 (as claimed): in the instructions lower() has emitted for the
\* statements done so far, every read of a variable is the name bound by the
\* latest let or assignment to it, a bare variable on the right-hand side and
\* `bin` temporaries in between included; and lower() stops on a read only
\* if the statement reads a variable that no earlier statement assigned.
C14_ReadsResolveToLatestBinding ==
    /\ pc = "lower" => ResolveStmts(SubSeq(stmts, 1, idx), <<>>, instructions, 1)
    /\ pc = "lower_panic" =>
          \E v \in ReadVars(stmts[idx + 1].value) :
              \A k \in 1..idx : StmtTarget(stmts[k]) # v

\* How many Binary instructions a list holds.
NumBinary(insts) ==
    Cardinality({i \in 1..Len(insts) : insts[i].tag = "Binary"})

\* The list the running constant_folding call was entered with: what
\* dead_code_elimination left of the Program optimize() was given.
FoldEntry == dead_code_elimination(outputs[Len(outputs)])

\* C15: every iteration of the outer `while modified` loop of
\* constant_folding that sets the flag leaves fewer Binary instructions than
\* it found, no iteration changes a Constant or the length of the list, and
\* the iterations of one call never number more than the Binary
\* instructions it was entered with plus one (an iteration that stops on a
\* division by zero ends the call as well).
C15_FoldingTerminates ==
    [][(pc = "fold" /\ passes' # passes) =>
          /\ modified' => NumBinary(instructions') < NumBinary(instructions)
          /\ Len(instructions') = Len(instructions)
          /\ \A i \in 1..Len(instructions) :
                instructions[i].tag = "Constant" => instructions'[i] = instructions[i]
          /\ passes' <= NumBinary(FoldEntry) + 1]_vars

\* C15 witness: a call entered with two Binary instructions, the first
\* reading the result of the second, has left its loop after three
\* iterations with both folded.
C15_Witness ==
    /\ pc = "fold"
    /\ ~modified
    /\ passes = 3
    /\ NumBinary(FoldEntry) = 2
    /\ NumBinary(instructions) = 0
    /\ FoldEntry[1].tag = "Binary" /\ FoldEntry[1].left = FoldEntry[2].result

-----------------------------------------------------------------------------
(* Inputs of the lexer                                                      *)

\* Longest generated source text.
MaxInputLen == 4

GenAlphabet == {"a", "b", "1", " ", "=", "!", "&", "|", "<", "#"}

GenInputs(n) == [1..n -> GenAlphabet]

\* The input of test_lex_function.
TestInput ==
    <<"f", "n", " ", "a", "d", "d", "(", "a", ":", " ", "i", "n", "t", ",",
      " ", "b", ":", " ", "i", "n", "t", ")", " ", "-", ">", " ", "i", "n",
      "t", " ", "{", " ", "r", "e", "t", "u", "r", "n", " ", "a", " ", "+",
      " ", "b", ";", " ", "}">>

\* Digit runs around the 64-bit limit: i64::MAX, i64::MAX + 1, 10^19, and
\* i64::MAX and i64::MAX + 1 written with leading zeros.
DigitRuns ==
    {I64MaxDigits, I64MinDigits,
     <<"1">> \o [i \in 1..19 |-> "0"],
     <<"0", "0">> \o I64MaxDigits,
     <<"0">> \o I64MinDigits,
     [i \in 1..19 |-> "9"]}

RunPrefixes == {<<>>, <<" ">>, <<"a", " ">>, <<"x", "=">>, <<"\n", "\t", "(">>}
RunSuffixes == {<<>>, <<";">>, <<" ", "b">>, <<"a", "1">>}

DigitRunInputs ==
    {pre \o run \o post : pre \in RunPrefixes, run \in DigitRuns, post \in RunSuffixes}

IRIdle ==
    /\ stmts = <<>>
    /\ idx = 0
    /\ instructions = <<>>
    /\ variables = <<>>
    /\ pc = "idle"
    /\ known_constants = <<>>
    /\ modified = FALSE
    /\ calls = 0
    /\ outputs = <<>>
    /\ passes = 0

-----------------------------------------------------------------------------
(* The lexer as a state machine: one action per iteration of lex's loop     *)

InitLex ==
    /\ \/ \E n \in 0..MaxInputLen : input \in GenInputs(n)
       \/ input \in DigitRunInputs
       \/ input = TestInput
    /\ chars = 0
    /\ position = 0
    /\ tokens = <<>>
    /\ spans = <<>>
    /\ lexState = "lexing"
    /\ lexError = None
    /\ IRIdle
    /\ ParseIdle

\* An iteration that pushes no token and returns no error (whitespace).
LexSkip ==
    /\ lexState = "lexing"
    /\ chars < Len(input)
    /\ LET r == LexOne(input, chars, position)
       IN  /\ ~r.tok.some /\ ~r.err.some
           /\ chars' = chars + r.len
           /\ position' = position + r.len
    /\ UNCHANGED <<input, tokens, spans, lexState, lexError>>
    /\ UNCHANGED irVars
    /\ UNCHANGED parserVars

\* An iteration that scans one token and pushes it.
LexToken ==
    /\ lexState = "lexing"
    /\ chars < Len(input)
    /\ LET r == LexOne(input, chars, position)
       IN  /\ r.tok.some
           /\ chars' = chars + r.len
           /\ position' = position + r.len
           /\ tokens' = Append(tokens, r.tok.val)
           /\ spans' = Append(spans, <<position, position + r.len>>)
    /\ UNCHANGED <<input, lexState, lexError>>
    /\ UNCHANGED irVars
    /\ UNCHANGED parserVars

\* An iteration that returns Err(LexerError).
LexFail ==
    /\ lexState = "lexing"
    /\ chars < Len(input)
    /\ LET r == LexOne(input, chars, position)
       IN  /\ r.err.some
           /\ chars' = chars + r.len
           /\ position' = position + r.len
           /\ lexState' = "err"
           /\ lexError' = r.err
    /\ UNCHANGED <<input, tokens, spans>>
    /\ UNCHANGED irVars
    /\ UNCHANGED parserVars

\* The iterator is exhausted: Eof is pushed and Ok(tokens) returned.
LexEof ==
    /\ lexState = "lexing"
    /\ chars = Len(input)
    /\ tokens' = LexFinish(tokens)
    /\ spans' = Append(spans, <<position, position>>)
    /\ lexState' = "ok"
    /\ UNCHANGED <<input, chars, position, lexError>>
    /\ UNCHANGED irVars
    /\ UNCHANGED parserVars

NextLex == LexSkip \/ LexToken \/ LexFail \/ LexEof

SpecLex == InitLex /\ [][NextLex]_vars

-----------------------------------------------------------------------------
(* Claims about the lexer                                                   *)

\* What lex() returned: Ok(tokens) or Err(LexerError); an Err carries no
\* tokens.
LexReturned ==
    CASE lexState = "ok" -> [ok |-> TRUE, tokens |-> tokens]
      [] lexState = "err" -> [ok |-> FALSE, error |-> lexError.val]
      [] OTHER -> None

\* The source text of the i-th token.
SpanText(i) == SubSeq(input, spans[i][1] + 1, spans[i][2])

\* The source texts a token can stand for, by the language's token table.
FixedLexeme(type) ==
    CASE type = "Function" -> <<"f", "n">>
      [] type = "Return" -> <<"r", "e", "t", "u", "r", "n">>
      [] type = "Let" -> <<"l", "e", "t">>
      [] type = "If" -> <<"i", "f">>
      [] type = "Else" -> <<"e", "l", "s", "e">>
      [] type = "While" -> <<"w", "h", "i", "l", "e">>
      [] type = "True" -> <<"t", "r", "u", "e">>
      [] type = "False" -> <<"f", "a", "l", "s", "e">>
      [] type = "TypeInt" -> <<"i", "n", "t">>
      [] type = "TypeBool" -> <<"b", "o", "o", "l">>
      [] type = "TypeVoid" -> <<"v", "o", "i", "d">>
      [] type = "LeftParen" -> <<"(">>
      [] type = "RightParen" -> <<")">>
      [] type = "LeftBrace" -> <<"{">>
      [] type = "RightBrace" -> <<"}">>
      [] type = "Colon" -> <<":">>
      [] type = "Semicolon" -> <<";">>
      [] type = "Comma" -> <<",">>
      [] type = "Arrow" -> <<"-", ">">>
      [] type = "Assign" -> <<"=">>
      [] type = "Plus" -> <<"+">>
      [] type = "Minus" -> <<"-">>
      [] type = "Star" -> <<"*">>
      [] type = "Slash" -> <<"/">>
      [] type = "Equal" -> <<"=", "=">>
      [] type = "NotEqual" -> <<"!", "=">>
      [] type = "Less" -> <<"<">>
      [] type = "LessEqual" -> <<"<", "=">>
      [] type = "Greater" -> <<">">>
      [] type = "GreaterEqual" -> <<">", "=">>
      [] type = "And" -> <<"&", "&">>
      [] type = "Or" -> <<"|", "|">>
      [] type = "Eof" -> <<>>

TokenMatchesText(tok, text) ==
    CASE tok.type = "Identifier" -> tok.name = text
      [] tok.type = "Integer" ->
            /\ text # <<>>
            /\ \A k \in 1..Len(text) : IsDigit(text[k])
            /\ ~tok.value.neg
            /\ tok.value.mag = StripZeros(text)
      [] OTHER -> FixedLexeme(tok.type) = text

\* C8: when lex() succeeds the token sequence holds exactly one Eof, as its
\* last element; the tokens before it stand for consecutive pieces of the
\* source text in left-to-right order, separated only by whitespace, and no
\* piece contains whitespace.
C8_EofLastTokensInOrder ==
    lexState = "ok" =>
        LET n == Len(tokens)
        IN  /\ n >= 1
            /\ tokens[n] = Tok("Eof")
            /\ \A i \in 1..(n - 1) : tokens[i].type # "Eof"
            /\ Len(spans) = n
            /\ spans[n] = <<Len(input), Len(input)>>
            /\ \A i \in 1..n :
                  LET prevEnd == IF i = 1 THEN 0 ELSE spans[i - 1][2]
                  IN  /\ prevEnd <= spans[i][1]
                      /\ \A k \in (prevEnd + 1)..spans[i][1] : IsWhitespace(input[k])
                      /\ i < n => spans[i][1] < spans[i][2]
                      /\ \A k \in (spans[i][1] + 1)..spans[i][2] : ~IsWhitespace(input[k])
                      /\ TokenMatchesText(tokens[i], SpanText(i))

\* C8 witness: lex() succeeded on an input with whitespace between tokens.
C8_Witness ==
    /\ lexState = "ok"
    /\ Len(tokens) >= 3
    /\ \E k \in 2..(Len(input) - 1) : IsWhitespace(input[k])

\* Character k of the input (1-based) lies in the text of a token of `type`.
CoveredBy(k, type) ==
    \E i \in 1..Len(spans) :
        tokens[i].type = type /\ spans[i][1] < k /\ k <= spans[i][2]

\* C9: `=` followed by `=` is one Equal token and any other `=` is Assign
\* (`a=b` and `a==b` lex as claimed); once the scan has taken a `!` that no
\* `!=` token covers, or a `&` (`|`) that no `&&` (`||`) token covers, lex()
\* has returned an error.
C9_OperatorLookahead ==
    /\ input \in {<<"a", "=", "b">>, <<"a", "=", "=", "b">>} => lexState # "err"
    /\ (lexState = "ok" /\ input = <<"a", "=", "b">>) =>
          LexReturned.tokens = <<IdentifierTok(<<"a">>), Tok("Assign"),
                                 IdentifierTok(<<"b">>), Tok("Eof")>>
    /\ (lexState = "ok" /\ input = <<"a", "=", "=", "b">>) =>
          LexReturned.tokens = <<IdentifierTok(<<"a">>), Tok("Equal"),
                                 IdentifierTok(<<"b">>), Tok("Eof")>>
    /\ \A i \in 1..Len(spans) :
          /\ (spans[i][1] < Len(input) /\ input[spans[i][1] + 1] = "=") =>
                IF spans[i][1] + 1 < Len(input) /\ input[spans[i][1] + 2] = "="
                THEN tokens[i] = Tok("Equal") /\ spans[i][2] = spans[i][1] + 2
                ELSE tokens[i] = Tok("Assign") /\ spans[i][2] = spans[i][1] + 1
          /\ tokens[i].type \in {"Equal", "Assign"} => input[spans[i][1] + 1] = "="
    /\ \A k \in 1..chars :
          /\ input[k] = "!" => (CoveredBy(k, "NotEqual") \/ lexState = "err")
          /\ input[k] = "&" => (CoveredBy(k, "And") \/ lexState = "err")
          /\ input[k] = "|" => (CoveredBy(k, "Or") \/ lexState = "err")
    /\ \A i \in 1..Len(spans) :
          tokens[i].type \in {"NotEqual", "And", "Or"} =>
              SpanText(i) = FixedLexeme(tokens[i].type)

\* C9 witness: lex() returned the tokens of `a==b`.
C9_Witness ==
    /\ lexState = "ok"
    /\ input = <<"a", "=", "=", "b">>
    /\ tokens[2] = Tok("Equal")

\* C10 (as claimed): an invalid-integer error carries the digit text and, as
\* position, the offset of the first digit of that maximal digit run.
C10_InvalidIntegerPosition ==
    (lexState = "err" /\ lexError.val.message[1] = "Invalid integer: ") =>
        LET number == Tail(lexError.val.message)
            s == lexError.val.position
            n == Len(number)
        IN  /\ n > 0
            /\ s + n <= Len(input)
            /\ SubSeq(input, s + 1, s + n) = number
            /\ \A k \in 1..n : IsDigit(number[k])
            /\ s + n = Len(input) \/ ~IsDigit(input[s + n + 1])
            /\ ~ParseI64(number).ok

-----------------------------------------------------------------------------
(* Parser: src/parser.rs                                                    *)

\* lexer::lex as one function, the way the parser's test calls it: the loop
\* of LexOne steps from the start of the input to its end.
RECURSIVE LexFrom(_, _, _, _)
LexFrom(inp, c, pos, toks) ==
    IF c = Len(inp) THEN [ok |-> TRUE, tokens |-> LexFinish(toks)]
    ELSE LET r == LexOne(inp, c, pos)
         IN  IF r.err.some THEN [ok |-> FALSE, error |-> r.err.val]
             ELSE LexFrom(inp, c + r.len, pos + r.len,
                          IF r.tok.some THEN Append(toks, r.tok.val) ELSE toks)

lex(inp) == LexFrom(inp, 0, 0, <<>>)

\* The syntax tree of src/ast.rs.  An Expr::Integer made by the parser
\* carries the value of its Integer token (sign and digits).
Boolean(b) == [tag |-> "Boolean", value |-> b]
Call(name, args) == [tag |-> "Call", name |-> name, args |-> args]
Comparison(op, l, r) == [tag |-> "Comparison", op |-> op, left |-> l, right |-> r]
Return(e) == [tag |-> "Return", value |-> e]
LetOf(name, typ, value) == [tag |-> "Let", name |-> name, typ |-> typ, value |-> value]
ExprStmt(e) == [tag |-> "Expr", value |-> e]
If(condition, then_branch, else_branch) ==
    [tag |-> "If", condition |-> condition, then_branch |-> then_branch,
     else_branch |-> else_branch]
While(condition, body) == [tag |-> "While", condition |-> condition, body |-> body]
Parameter(name, typ) == [name |-> name, typ |-> typ]
Function(name, params, return_type, body) ==
    [name |-> name, params |-> params, return_type |-> return_type, body |-> body]

ParseError(message) == [message |-> message]

\* Result<T, Box<dyn Error>> of a parser method, with the parser it leaves.
Ok(v, p) == [ok |-> TRUE, val |-> v, p |-> p]
Err(message, p) == [ok |-> FALSE, error |-> ParseError(message), p |-> p]

\* Parser::new.  `log` records, in order, what every consume call and every
\* loop iteration did to `current`; `panicked` records an index out of range
\* in advance or consume (a panic of the indexing in peek / previous).
NewParser(toks) ==
    [tokens |-> toks, current |-> 0, log |-> <<>>, panicked |-> FALSE]

InBounds(p, i) == i >= 0 /\ i < Len(p.tokens)
OutOfBounds == Tok("<index out of bounds>")

\* self.tokens[self.current] (`current` counts from 0).
peek(p) == IF InBounds(p, p.current) THEN p.tokens[p.current + 1] ELSE OutOfBounds

\* self.tokens[self.current - 1]
previous(p) ==
    IF InBounds(p, p.current - 1) THEN p.tokens[p.current] ELSE OutOfBounds

is_at_end(p) == peek(p).type = "Eof"

\* advance without the is_at_end test.
advance_Unguarded(p) ==
    LET q == [p EXCEPT !.current = @ + 1]
    IN  [p |-> [q EXCEPT !.panicked = @ \/ ~InBounds(p, p.current)
                                        \/ ~InBounds(q, q.current - 1)],
         tok |-> previous(q)]

\* advance: the parser after the call and the token returned.  On Eof the
\* cursor stays and the token before Eof is returned.
advance(p) ==
    LET q == IF ~is_at_end(p) THEN [p EXCEPT !.current = @ + 1] ELSE p
    IN  [p |-> [q EXCEPT !.panicked = @ \/ ~InBounds(p, p.current)
                                        \/ ~InBounds(q, q.current - 1)],
         tok |-> previous(q)]

ConsumeEntry(expected, message, before, after, ok) ==
    [op |-> "consume", expected |-> expected, message |-> message,
     before |-> before, after |-> after, ok |-> ok]

\* consume that steps over a token that is not the expected one.
consume_SkipsMismatch(p, expected, message) ==
    LET a == advance(p)
        ok == peek(p).type = expected
    IN  IF ok
        THEN Ok(a.tok, [a.p EXCEPT !.log = Append(@,
                 ConsumeEntry(expected, message, p.current, a.p.current, ok))])
        ELSE Err(message, [a.p EXCEPT !.log = Append(@,
                 ConsumeEntry(expected, message, p.current, a.p.current, ok))])

\* consume(expected, message); every expected token is a unit variant, so
\* `self.peek() == &expected` compares the variant.
consume(p, expected, message) ==
    IF peek(p).type = expected
    THEN LET a == advance(p)
         IN  Ok(a.tok, [a.p EXCEPT !.log = Append(@,
                 ConsumeEntry(expected, message, p.current, a.p.current, TRUE))])
    ELSE Err(message, [p EXCEPT
                 !.panicked = @ \/ ~InBounds(p, p.current),
                 !.log = Append(@,
                 ConsumeEntry(expected, message, p.current, p.current, FALSE))])

\* Vec::push at the front.
push_Front(vec, x) == <<x>> \o vec

\* Vec::push
push(vec, x) == Append(vec, x)

\* One iteration of loop `name` that started with the cursor at `before`
\* and ended, by result r, with the parser r.p: the iteration is logged.
Iter(name, before, r) ==
    [r EXCEPT !.p.log = Append(@, [op |-> "loop", loop |-> name,
                                   before |-> before, after |-> r.p.current,
                                   ok |-> r.ok])]

parse_type(p) ==
    LET a == advance(p)
    IN  CASE a.tok.type = "TypeInt" -> Ok("Int", a.p)
          [] a.tok.type = "TypeBool" -> Ok("Bool", a.p)
          [] a.tok.type = "TypeVoid" -> Ok("Void", a.p)
          [] OTHER -> Err("Expected type", a.p)

\* The element of a one-element set.  Below, The({ F(r) : r \in {v} }) is
\* `let r = v; F(r)`: v is evaluated once, however often F mentions r.
The(S) == CHOOSE x \in S : TRUE

RECURSIVE parse_statement(_)
RECURSIVE StatementsLoop(_, _, _)
RECURSIVE parse_expression(_)
RECURSIVE parse_logical_or(_)
RECURSIVE LogicalOrLoop(_, _)
RECURSIVE parse_logical_and(_)
RECURSIVE LogicalAndLoop(_, _)
RECURSIVE parse_comparison(_)
RECURSIVE ComparisonLoop(_, _)
RECURSIVE parse_binary(_)
RECURSIVE BinaryLoop(_, _)
RECURSIVE parse_primary(_)
RECURSIVE ArgsLoop(_, _)
RECURSIVE parse_if_statement(_)
RECURSIVE parse_while_statement(_)

\* The `loop` of parse_primary that collects the arguments of a call.
ArgsLoop(args, p) ==
    The({ IF ~e.ok THEN Iter("args", p.current, e)
          ELSE IF peek(e.p).type # "Comma"
          THEN Iter("args", p.current, Ok(push(args, e.val), e.p))
          ELSE ArgsLoop(push(args, e.val),
                        Iter("args", p.current, Ok(args, advance(e.p).p)).p)
        : e \in {parse_expression(p)} })

\* The Identifier arm of parse_primary after a `(`: the arguments and `)`.
CallArguments(name, p) ==
    The({ IF ~args.ok THEN args
          ELSE LET c == consume(args.p, "RightParen", "Expected ')' after arguments")
               IN  IF ~c.ok THEN c ELSE Ok(Call(name, args.val), c.p)
        : args \in {IF peek(p).type # "RightParen"
                    THEN ArgsLoop(<<>>, p)
                    ELSE Ok(<<>>, p)} })

parse_primary(p) ==
    LET a == advance(p)
        token == a.tok
    IN  CASE token.type = "Integer" -> Ok(Integer(token.value), a.p)
          [] token.type = "True" -> Ok(Boolean(TRUE), a.p)
          [] token.type = "False" -> Ok(Boolean(FALSE), a.p)
          [] token.type = "Identifier" ->
                IF peek(a.p).type = "LeftParen"
                THEN CallArguments(token.name, advance(a.p).p)
                ELSE Ok(Variable(token.name), a.p)
          [] OTHER -> Err("Expected expression", a.p)

\* The `while matches!(self.peek(), Plus | Minus | Star | Slash)` loop of
\* parse_binary: all four operators on one level, operands from
\* parse_primary, the tree growing to the left.
BinaryLoop(expr, p) ==
    IF peek(p).type \in {"Plus", "Minus", "Star", "Slash"}
    THEN LET a == advance(p)
             op == CASE a.tok.type = "Plus" -> "Add"
                     [] a.tok.type = "Minus" -> "Subtract"
                     [] a.tok.type = "Star" -> "Multiply"
                     [] a.tok.type = "Slash" -> "Divide"
         IN  The({ IF ~right.ok THEN Iter("binary", p.current, right)
                   ELSE BinaryLoop(BinaryExpr(op, expr, right.val),
                                   Iter("binary", p.current, right).p)
                 : right \in {parse_primary(a.p)} })
    ELSE Ok(expr, p)

parse_binary(p) ==
    The({ IF ~expr.ok THEN expr ELSE BinaryLoop(expr.val, expr.p)
        : expr \in {parse_primary(p)} })

ComparisonLoop(expr, p) ==
    IF peek(p).type \in {"Equal", "NotEqual", "Less", "LessEqual", "Greater",
                         "GreaterEqual"}
    THEN LET a == advance(p)
             op == a.tok.type
         IN  The({ IF ~right.ok THEN Iter("comparison", p.current, right)
                   ELSE ComparisonLoop(Comparison(op, expr, right.val),
                                       Iter("comparison", p.current, right).p)
                 : right \in {parse_binary(a.p)} })
    ELSE Ok(expr, p)

parse_comparison(p) ==
    The({ IF ~expr.ok THEN expr ELSE ComparisonLoop(expr.val, expr.p)
        : expr \in {parse_binary(p)} })

LogicalAndLoop(expr, p) ==
    IF peek(p).type = "And"
    THEN The({ IF ~right.ok THEN Iter("logical_and", p.current, right)
               ELSE LogicalAndLoop(BinaryExpr("And", expr, right.val),
                                   Iter("logical_and", p.current, right).p)
             : right \in {parse_comparison(advance(p).p)} })
    ELSE Ok(expr, p)

parse_logical_and(p) ==
    The({ IF ~expr.ok THEN expr ELSE LogicalAndLoop(expr.val, expr.p)
        : expr \in {parse_comparison(p)} })

LogicalOrLoop(expr, p) ==
    IF peek(p).type = "Or"
    THEN The({ IF ~right.ok THEN Iter("logical_or", p.current, right)
               ELSE LogicalOrLoop(BinaryExpr("Or", expr, right.val),
                                  Iter("logical_or", p.current, right).p)
             : right \in {parse_logical_and(advance(p).p)} })
    ELSE Ok(expr, p)

parse_logical_or(p) ==
    The({ IF ~expr.ok THEN expr ELSE LogicalOrLoop(expr.val, expr.p)
        : expr \in {parse_logical_and(p)} })

parse_expression(p) == parse_logical_or(p)

\* The `while self.peek() != &Token::RightBrace { body.push(parse_statement()?) }`
\* loop of a function, if, else or while body.
StatementsLoop(name, body, p) ==
    IF peek(p).type # "RightBrace"
    THEN The({ IF ~st.ok THEN Iter(name, p.current, st)
               ELSE StatementsLoop(name, push(body, st.val),
                                   Iter(name, p.current, st).p)
             : st \in {parse_statement(p)} })
    ELSE Ok(body, p)

\* expression, then `;`: the tail shared by the arms of parse_statement.
ExprThenSemicolon(p, message) ==
    The({ IF ~e.ok THEN e
          ELSE LET c == consume(e.p, "Semicolon", message)
               IN  IF ~c.ok THEN c ELSE Ok(e.val, c.p)
        : e \in {parse_expression(p)} })

\* The Let arm of parse_statement after `let`.
LetStatement(p) ==
    LET a == advance(p)
        c == consume(a.p, "Colon", "Expected ':' after variable name")
        typ == parse_type(c.p)
        eq == consume(typ.p, "Assign", "Expected '=' after type")
    IN  IF a.tok.type # "Identifier" THEN Err("Expected variable name", a.p)
        ELSE IF ~c.ok THEN c
        ELSE IF ~typ.ok THEN typ
        ELSE IF ~eq.ok THEN eq
        ELSE The({ IF ~e.ok THEN e ELSE Ok(LetOf(a.tok.name, typ.val, e.val), e.p)
                 : e \in {ExprThenSemicolon(eq.p, "Expected ';' after expression")} })

\* The statement an arm of parse_statement makes of `expression ;`; `kind`
\* is the arm and `name` the assigned variable of the Assignment arm.
StatementOf(kind, name, p, message) ==
    The({ IF ~e.ok THEN e
          ELSE Ok(CASE kind = "Return" -> Return(e.val)
                    [] kind = "Assignment" -> Assign(name, e.val)
                    [] kind = "Expr" -> ExprStmt(e.val),
                  e.p)
        : e \in {ExprThenSemicolon(p, message)} })

\* parse_statement.  The println! of the last arm writes to stdout only.
parse_statement(p) ==
    CASE peek(p).type = "Return" ->
            StatementOf("Return", <<>>, advance(p).p, "Expected ';' after return")
      [] peek(p).type = "Let" -> LetStatement(advance(p).p)
      [] peek(p).type = "Identifier" ->
            IF InBounds(p, p.current + 1) /\ p.tokens[p.current + 2].type = "Assign"
            THEN LET a == advance(p)
                 IN  StatementOf("Assignment", a.tok.name, advance(a.p).p,
                                 "Expected ';' after assignment")
            ELSE StatementOf("Expr", <<>>, p, "Expected ';' after expression")
      [] peek(p).type = "If" -> parse_if_statement(p)
      [] peek(p).type = "While" -> parse_while_statement(p)
      [] OTHER -> StatementOf("Expr", <<>>, p, "Expected ';' after expression")

\* `{`, the statements up to `}`, and `}`: a braced body of an if, else or
\* while statement.
BracedBody(name, p, openMessage, closeMessage) ==
    LET open == consume(p, "LeftBrace", openMessage)
    IN  IF ~open.ok THEN open
        ELSE The({ IF ~body.ok THEN body
                   ELSE LET close == consume(body.p, "RightBrace", closeMessage)
                        IN  IF ~close.ok THEN close ELSE Ok(body.val, close.p)
                 : body \in {StatementsLoop(name, <<>>, open.p)} })

\* keyword, `(`, condition, `)`: the head of an if or while statement.
ConditionHead(p, keyword, keywordMessage, openMessage, closeMessage) ==
    LET k == consume(p, keyword, keywordMessage)
        open == consume(k.p, "LeftParen", openMessage)
    IN  IF ~k.ok THEN k
        ELSE IF ~open.ok THEN open
        ELSE The({ IF ~condition.ok THEN condition
                   ELSE LET close == consume(condition.p, "RightParen", closeMessage)
                        IN  IF ~close.ok THEN close ELSE Ok(condition.val, close.p)
                 : condition \in {parse_expression(open.p)} })

\* The `else_branch` of parse_if_statement: Some(statements) after `else`,
\* None without it.
ElseBranch(p) ==
    IF peek(p).type = "Else"
    THEN The({ IF ~else_statements.ok THEN else_statements
               ELSE Ok(Some(else_statements.val), else_statements.p)
             : else_statements \in
                   {BracedBody("else", advance(p).p,
                               "Expected '{' before else body",
                               "Expected '}' after else body")} })
    ELSE Ok(None, p)

\* The bodies of parse_if_statement after its condition.
IfBranches(condition, p) ==
    The({ IF ~then_branch.ok THEN then_branch
          ELSE The({ IF ~else_branch.ok THEN else_branch
                     ELSE Ok(If(condition, then_branch.val, else_branch.val),
                             else_branch.p)
                   : else_branch \in {ElseBranch(then_branch.p)} })
        : then_branch \in {BracedBody("then", p, "Expected '{' before if body",
                                      "Expected '}' after if body")} })

parse_if_statement(p) ==
    The({ IF ~condition.ok THEN condition
          ELSE IfBranches(condition.val, condition.p)
        : condition \in {ConditionHead(p, "If", "Expected 'if'",
                                       "Expected '(' after 'if'",
                                       "Expected ')' after if condition")} })

\* The body of parse_while_statement after its condition.
WhileBody(condition, p) ==
    The({ IF ~body.ok THEN body ELSE Ok(While(condition, body.val), body.p)
        : body \in {BracedBody("while", p, "Expected '{' before while body",
                               "Expected '}' after while body")} })

parse_while_statement(p) ==
    The({ IF ~condition.ok THEN condition
          ELSE WhileBody(condition.val, condition.p)
        : condition \in {ConditionHead(p, "While", "Expected 'while'",
                                       "Expected '(' after 'while'",
                                       "Expected ')' after while condition")} })

\* The `loop` of parse_function that collects the parameters.
RECURSIVE ParamsLoop(_, _)
ParamsLoop(params, p) ==
    LET a == advance(p)
        c == consume(a.p, "Colon", "Expected ':' after parameter name")
        param_type == parse_type(c.p)
        pushed == push(params, Parameter(a.tok.name, param_type.val))
    IN  IF a.tok.type # "Identifier"
        THEN Iter("params", p.current, Err("Expected parameter name", a.p))
        ELSE IF ~c.ok THEN Iter("params", p.current, c)
        ELSE IF ~param_type.ok THEN Iter("params", p.current, param_type)
        ELSE IF peek(param_type.p).type # "Comma"
        THEN Iter("params", p.current, Ok(pushed, param_type.p))
        ELSE ParamsLoop(pushed,
                        Iter("params", p.current,
                             Ok(pushed, advance(param_type.p).p)).p)

\* parse_function from `fn` to the `(` after the name: the function's name.
FunctionName(p) ==
    LET f == consume(p, "Function", "Expected 'fn'")
        name == advance(f.p)
        open == consume(name.p, "LeftParen", "Expected '(' after function name")
    IN  IF ~f.ok THEN f
        ELSE IF name.tok.type # "Identifier"
        THEN Err("Expected function name", name.p)
        ELSE IF ~open.ok THEN open
        ELSE Ok(name.tok.name, open.p)

\* parse_function from the parameters to the `{` of the body: the
\* parameters and the return type.
FunctionSignature(p) ==
    The({ IF ~params.ok THEN params
          ELSE LET close == consume(params.p, "RightParen",
                                    "Expected ')' after parameters")
                   arrow == consume(close.p, "Arrow",
                                    "Expected '->' after parameters")
                   return_type == parse_type(arrow.p)
                   brace == consume(return_type.p, "LeftBrace",
                                    "Expected '{' before function body")
               IN  IF ~close.ok THEN close
                   ELSE IF ~arrow.ok THEN arrow
                   ELSE IF ~return_type.ok THEN return_type
                   ELSE IF ~brace.ok THEN brace
                   ELSE Ok([params |-> params.val, return_type |-> return_type.val],
                           brace.p)
        : params \in {IF peek(p).type # "RightParen"
                      THEN ParamsLoop(<<>>, p)
                      ELSE Ok(<<>>, p)} })

\* parse_function from the statements of the body to its `}`.
FunctionBody(p) ==
    The({ IF ~body.ok THEN body
          ELSE LET end == consume(body.p, "RightBrace",
                                  "Expected '}' after function body")
               IN  IF ~end.ok THEN end ELSE Ok(body.val, end.p)
        : body \in {StatementsLoop("body", <<>>, p)} })

parse_function(p) ==
    The({ IF ~name.ok THEN name
          ELSE The({ IF ~sig.ok THEN sig
                     ELSE The({ IF ~body.ok THEN body
                                ELSE Ok(Function(name.val, sig.val.params,
                                                 sig.val.return_type, body.val),
                                        body.p)
                              : body \in {FunctionBody(sig.p)} })
                   : sig \in {FunctionSignature(name.p)} })
        : name \in {FunctionName(p)} })

-----------------------------------------------------------------------------
(* Inputs of the parser                                                     *)

IntTok(n) == IntegerTok([neg |-> FALSE, mag |-> FormatNat(n)])

\* What lex returns for the `source` of main() in src/main.rs: the tokens of
\* `fn main() -> void { ... }` and `fn add(a: int, b: int) -> int { ... }`.
MainTokens ==
    <<Tok("Function"), IdentifierTok(<<"m", "a", "i", "n">>),
      Tok("LeftParen"), Tok("RightParen"), Tok("Arrow"), Tok("TypeVoid"),
      Tok("LeftBrace"), Tok("Let"), IdentifierTok(<<"x">>), Tok("Colon"),
      Tok("TypeInt"), Tok("Assign"), IntTok(3), Tok("Semicolon"), Tok("Let"),
      IdentifierTok(<<"y">>), Tok("Colon"), Tok("TypeInt"), Tok("Assign"),
      IntTok(4), Tok("Semicolon"), Tok("Let"), IdentifierTok(<<"z">>),
      Tok("Colon"), Tok("TypeInt"), Tok("Assign"),
      IdentifierTok(<<"a", "d", "d">>), Tok("LeftParen"),
      IdentifierTok(<<"x">>), Tok("Comma"), IdentifierTok(<<"y">>),
      Tok("RightParen"), Tok("Semicolon"), Tok("If"), Tok("LeftParen"),
      IdentifierTok(<<"x">>), Tok("Less"), IdentifierTok(<<"y">>),
      Tok("RightParen"), Tok("LeftBrace"), IdentifierTok(<<"z">>),
      Tok("Assign"), IdentifierTok(<<"z">>), Tok("Star"), IntTok(2),
      Tok("Semicolon"), Tok("RightBrace"), Tok("While"), Tok("LeftParen"),
      IdentifierTok(<<"x">>), Tok("LessEqual"), IdentifierTok(<<"z">>),
      Tok("RightParen"), Tok("LeftBrace"), IdentifierTok(<<"x">>),
      Tok("Assign"), IdentifierTok(<<"a", "d", "d">>), Tok("LeftParen"),
      IdentifierTok(<<"x">>), Tok("Comma"), IntTok(1), Tok("RightParen"),
      Tok("Semicolon"), Tok("RightBrace"), Tok("RightBrace"), Tok("Function"),
      IdentifierTok(<<"a", "d", "d">>), Tok("LeftParen"),
      IdentifierTok(<<"a">>), Tok("Colon"), Tok("TypeInt"), Tok("Comma"),
      IdentifierTok(<<"b">>), Tok("Colon"), Tok("TypeInt"), Tok("RightParen"),
      Tok("Arrow"), Tok("TypeInt"), Tok("LeftBrace"), Tok("Return"),
      IdentifierTok(<<"a">>), Tok("Plus"), IdentifierTok(<<"b">>),
      Tok("Semicolon"), Tok("RightBrace"), Tok("Eof")>>

\* `fn f() -> int {`
FnHeader ==
    <<Tok("Function"), IdentifierTok(<<"f">>), Tok("LeftParen"),
      Tok("RightParen"), Tok("Arrow"), Tok("TypeInt"), Tok("LeftBrace")>>

\* Longest generated function body, in tokens.
MaxBodyLen == 4

BodyAlphabet ==
    {IntTok(1), IdentifierTok(NameX), Tok("Plus"), Tok("Semicolon"),
     Tok("Assign"), Tok("LeftParen"), Tok("RightParen"), Tok("Comma")}

GenBodies(n) == [1..n -> BodyAlphabet]

\* `fn f() -> int { a + b * c; }` for small integers a, b, c.
Operands == 1..3
SumProductTokens(a, b, c) ==
    FnHeader \o <<IntTok(a), Tok("Plus"), IntTok(b), Tok("Star"), IntTok(c),
                  Tok("Semicolon"), Tok("RightBrace"), Tok("Eof")>>
SumProductInputs ==
    {SumProductTokens(a, b, c) : a \in Operands, b \in Operands, c \in Operands}

\* `let tokens = lexer::lex(input).unwrap()` of test_parse_simple_function.
TestTokens == lex(TestInput).tokens

\* `fn name(p1: t1, p2: t2, ...) -> int { }` for a list of (name, type token)
\* pairs.
MaxParams == 2
ParamChoices ==
    {<<n, t>> : n \in {<<"a">>, <<"b">>},
                t \in {Tok("TypeInt"), Tok("TypeBool"), Tok("TypeVoid")}}
RECURSIVE ParamTokens(_)
ParamTokens(ps) ==
    IF ps = <<>> THEN <<>>
    ELSE <<IdentifierTok(ps[1][1]), Tok("Colon"), ps[1][2]>>
         \o (IF Len(ps) > 1 THEN <<Tok("Comma")>> ELSE <<>>)
         \o ParamTokens(Tail(ps))
Declaration(name, ps) ==
    <<Tok("Function"), IdentifierTok(name), Tok("LeftParen")>> \o ParamTokens(ps)
    \o <<Tok("RightParen"), Tok("Arrow"), Tok("TypeInt"), Tok("LeftBrace"),
         Tok("RightBrace")>>
\* One such function, or two of them.
DeclarationInputs ==
    {Declaration(<<"f">>, ps) \o <<Tok("Eof")>> :
        ps \in UNION {[1..n -> ParamChoices] : n \in 0..MaxParams}}
    \cup {Declaration(<<"g">>, ps) \o Declaration(<<"f">>, qs) \o <<Tok("Eof")>> :
            ps \in UNION {[1..n -> ParamChoices] : n \in 0..1},
            qs \in UNION {[1..n -> ParamChoices] : n \in 0..1}}

\* Every input cut off after its first k tokens, Eof appended as lex does.
Truncations(toks) ==
    {Append(SubSeq(toks, 1, k), Tok("Eof")) : k \in 0..(Len(toks) - 1)}

NamedParserInputs ==
    Truncations(TestTokens) \cup Truncations(MainTokens) \cup SumProductInputs
    \cup DeclarationInputs

-----------------------------------------------------------------------------
(* The parser as a state machine: one action per iteration of parse's loop  *)

InitParse ==
    /\ \/ \E n \in 0..MaxBodyLen : \E body \in GenBodies(n) :
              \/ ptokens = FnHeader \o body \o <<Tok("RightBrace"), Tok("Eof")>>
              \/ ptokens = FnHeader \o body \o <<Tok("Eof")>>
       \/ ptokens \in NamedParserInputs
    /\ current = 0
    /\ functions = <<>>
    /\ parseState = "parsing"
    /\ parseResult = None
    /\ plog = <<>>
    /\ LexIdle
    /\ IRIdle

\* The Parser of parse() between two iterations of its loop.
TheParser ==
    [tokens |-> ptokens, current |-> current, log |-> plog, panicked |-> FALSE]

\* An iteration of `while !parser.is_at_end()`: parse_function is called; its
\* Ok value is pushed, its Err is returned by `?`.
ParseFunction ==
    /\ parseState = "parsing"
    /\ ~InBounds(TheParser, current) \/ ~is_at_end(TheParser)
    /\ \E r \in {parse_function(TheParser)} :
           /\ current' = r.p.current
           /\ plog' = Iter("parse", current, r).p.log
           /\ IF ~InBounds(TheParser, current) \/ r.p.panicked
              THEN /\ parseState' = "panic"
                   /\ UNCHANGED <<functions, parseResult>>
              ELSE IF r.ok
              THEN /\ functions' = push(functions, r.val)
                   /\ UNCHANGED <<parseState, parseResult>>
              ELSE /\ parseState' = "done"
                   /\ parseResult' = Some([ok |-> FALSE, error |-> r.error])
                   /\ UNCHANGED functions
    /\ UNCHANGED ptokens
    /\ UNCHANGED lexVars
    /\ UNCHANGED irVars

\* The cursor is on Eof: Ok(functions) is returned.
ParseReturn ==
    /\ parseState = "parsing"
    /\ InBounds(TheParser, current) /\ is_at_end(TheParser)
    /\ parseState' = "done"
    /\ parseResult' = Some([ok |-> TRUE, functions |-> functions])
    /\ UNCHANGED <<ptokens, current, functions, plog>>
    /\ UNCHANGED lexVars
    /\ UNCHANGED irVars

NextParse == ParseFunction \/ ParseReturn

SpecParse == InitParse /\ [][NextParse]_vars

-----------------------------------------------------------------------------
(* Claims about the parser                                                  *)

\* What parse() returned, once it has.
ParseReturned == parseResult.val
ParseOk == parseState = "done" /\ ParseReturned.ok
ParseErr == parseState = "done" /\ ~ParseReturned.ok

\* The integer an arithmetic expression of integer literals stands for
\* (operands small enough that no operation overflows).
RECURSIVE Evaluate(_)
Evaluate(expr) ==
    CASE expr.tag = "Integer" -> IntOf(expr.value)
      [] expr.tag = "Binary" /\ expr.op = "Add" ->
            Evaluate(expr.left) + Evaluate(expr.right)
      [] expr.tag = "Binary" /\ expr.op = "Subtract" ->
            Evaluate(expr.left) - Evaluate(expr.right)
      [] expr.tag = "Binary" /\ expr.op = "Multiply" ->
            Evaluate(expr.left) * Evaluate(expr.right)

\* Expr::Integer(n) as the parser builds it from the token of n.
IntLit(n) == Integer(IntTok(n).value)

\* C11 (as claimed): the statement `a + b * c;` parses to
\* Binary(Add, a, Binary(Multiply, b, c)), so `*` binds tighter than `+` and
\* `1 + 2 * 3;` evaluates to 7.
C11_ProductBindsTighter ==
    \A a \in Operands, b \in Operands, c \in Operands :
        (parseState = "done" /\ ptokens = SumProductTokens(a, b, c)) =>
            /\ ParseReturned.ok
            /\ LET e == ParseReturned.functions[1].body[1].value
               IN  /\ e = BinaryExpr("Add", IntLit(a),
                                     BinaryExpr("Multiply", IntLit(b), IntLit(c)))
                   /\ Evaluate(e) = a + b * c

\* C12: every consume call either found the expected token under the cursor
\* and moved the cursor by exactly one, or found another token, left the
\* cursor where it was and failed with its message; after a failed consume
\* nothing more is consumed and no loop iteration completes, and parse()
\* has returned exactly that error, with no list of functions, the cursor
\* still on the offending token.
C12_ConsumeFailFast ==
    \A i \in 1..Len(plog) :
        plog[i].op = "consume" =>
            IF plog[i].ok
            THEN /\ ptokens[plog[i].before + 1].type = plog[i].expected
                 /\ plog[i].after = plog[i].before + 1
            ELSE /\ ptokens[plog[i].before + 1].type # plog[i].expected
                 /\ plog[i].after = plog[i].before
                 /\ \A j \in (i + 1)..Len(plog) :
                        plog[j].op = "loop" /\ ~plog[j].ok
                 /\ parseState = "done"
                 /\ ParseReturned = [ok |-> FALSE,
                                     error |-> ParseError(plog[i].message)]
                 /\ current = plog[i].before

\* C12 witness: parse() returned the error of a failed consume after a
\* first function had been parsed and pushed.
C12_Witness ==
    /\ ParseErr
    /\ Len(functions) = 1
    /\ \E i \in 1..Len(plog) : plog[i].op = "consume" /\ ~plog[i].ok
    /\ ParseReturned.error.message = "Expected ';' after return"

\* The declarations as written in the token sequence: where the `fn`
\* keywords stand, and for the `fn` at index i the name after it and the
\* `name : type` triples between its parentheses, four tokens apart.
FnIndexes == {i \in 1..Len(ptokens) : ptokens[i].type = "Function"}
KthFn(k) == CHOOSE i \in FnIndexes : Cardinality({j \in FnIndexes : j < i}) = k - 1
TypeOfToken(tok) ==
    CASE tok.type = "TypeInt" -> "Int"
      [] tok.type = "TypeBool" -> "Bool"
      [] tok.type = "TypeVoid" -> "Void"
DeclaredName(i) == ptokens[i + 1].name
DeclaredParamCount(i) ==
    LET close == CHOOSE j \in (i + 3)..Len(ptokens) :
                     /\ ptokens[j].type = "RightParen"
                     /\ \A k \in (i + 3)..(j - 1) : ptokens[k].type # "RightParen"
    IN  Cardinality({k \in (i + 3)..(close - 1) : ptokens[k].type = "Colon"})
DeclaredParams(i) ==
    [m \in 1..DeclaredParamCount(i) |->
        Parameter(ptokens[i + 4 * m - 1].name, TypeOfToken(ptokens[i + 4 * m + 1]))]

\* C13: when parse() returns Ok, the list has one Function per `fn` of the
\* input, in the order of the input, each with the declared name and the
\* declared parameters (names and types) in their written order; the test
\* input gives one function `add` with parameters a then b, and an input of
\* Eof alone gives the empty list.
C13_FunctionsInDeclarationOrder ==
    /\ ParseOk =>
          LET fns == ParseReturned.functions
          IN  /\ Len(fns) = Cardinality(FnIndexes)
              /\ \A k \in 1..Len(fns) :
                    /\ fns[k].name = DeclaredName(KthFn(k))
                    /\ fns[k].params = DeclaredParams(KthFn(k))
    /\ (parseState = "done" /\ ptokens = TestTokens) =>
          /\ ParseReturned.ok
          /\ Len(ParseReturned.functions) = 1
          /\ ParseReturned.functions[1].name = <<"a", "d", "d">>
          /\ Len(ParseReturned.functions[1].params) = 2
          /\ ParseReturned.functions[1].params[1].name = <<"a">>
          /\ ParseReturned.functions[1].params[2].name = <<"b">>
    /\ (parseState = "done" /\ ptokens = <<Tok("Eof")>>) =>
          ParseReturned = [ok |-> TRUE, functions |-> <<>>]

\* C13 witness: parse() returned Ok for the two functions of main.rs, the
\* second with its two parameters.
C13_Witness ==
    /\ ParseOk
    /\ ptokens = MainTokens
    /\ Len(ParseReturned.functions) = 2
    /\ ParseReturned.functions[1].name = <<"m", "a", "i", "n">>
    /\ ParseReturned.functions[2].params =
           <<Parameter(<<"a">>, "Int"), Parameter(<<"b">>, "Int")>>

\* C16: on every input that ends with its one Eof token, parse() goes on
\* until it returns Ok or Err (while it runs the cursor is on a token, so
\* its loop either returns on Eof or calls parse_function) and it cannot go
\* on for ever: the cursor is never past the Eof token, no index is out of
\* range, and every iteration of every parser loop (that of parse()
\* included) that did not return an error left the cursor further on than
\* it found it.
C16_ParseTerminates ==
    /\ current <= Len(ptokens) - 1
    /\ parseState \in {"parsing", "done"}
    /\ parseState = "parsing" => InBounds(TheParser, current)
    /\ \A i \in 1..Len(plog) :
          /\ plog[i].after <= Len(ptokens) - 1
          /\ (plog[i].op = "loop" /\ plog[i].ok) => plog[i].after > plog[i].before

\* C16 witness: the main.rs program cut off inside its while body, after
\* `x = add(x,`; advance on Eof returned the comma before it, parse_primary
\* refused it and parse() returned Err with the cursor on Eof, after loop
\* iterations that had completed.
C16_Witness ==
    /\ ParseErr
    /\ ptokens = Append(SubSeq(MainTokens, 1, 60), Tok("Eof"))
    /\ ptokens[60] = Tok("Comma")
    /\ current = Len(ptokens) - 1
    /\ ParseReturned.error = ParseError("Expected expression")
    /\ \E i \in 1..Len(plog) : plog[i].op = "loop" /\ plog[i].ok
    /\ \E i \in 1..Len(plog) : plog[i].op = "loop" /\ plog[i].loop = "while"

-----------------------------------------------------------------------------
(* The two components together                                              *)

Init == InitLex \/ InitParse \/ InitIR \/ InitFold

Next == NextLex \/ NextParse \/ NextIR

Spec == Init /\ [][Next]_vars

====
